---- MODULE Spec2Model ----
(***************************************************************************)
(* Model of the polynomial arithmetic interface of mlkem-c-aarch64         *)
(* (mlkem/poly.h, fips202/fips202x4.h).                                    *)
(*                                                                         *)
(* The scalar codec of poly.h (scalar_compress_q_16/32,                    *)
(* scalar_decompress_q_16/32, scalar_signed_to_unsigned_q_16) is modelled  *)
(* with the C integer widths: uint32_t values are pairs <<hi, lo>> of      *)
(* 16-bit limbs, so that the wrapping multiplication is computed exactly.  *)
(*                                                                         *)
(* The message codec, the cached base multiplication and the noise         *)
(* samplers are declared in poly.h and defined elsewhere; they are         *)
(* modelled from their documented behaviour.  Each of the four parts has   *)
(* its own specification (SpecScalar, SpecMsg, SpecMul, SpecNoise), in     *)
(* which the variables of the other parts stay idle.                       *)
(***************************************************************************)
EXTENDS Integers, Sequences, FiniteSets

VARIABLES
  pc,      \* scalar codec: position in the call chain
  kind,    \* scalar codec: what the input is ("coef", "code", "signed")
  width,   \* scalar codec: compression width b (4 or 5)
  u,       \* scalar codec: canonical unsigned coefficient (or -1)
  d,       \* scalar codec: b-bit code (or -1)
  x,       \* scalar codec: decompressed coefficient (or -1)
  d2,      \* scalar codec: code of the decompressed coefficient (or -1)
  c,       \* scalar codec: signed coefficient, int16_t
  t,       \* scalar codec: result of scalar_signed_to_unsigned_q_16 (or -1)
  mpc,     \* message codec: position in the call chain
  msg,     \* message codec: the 32 message bytes given to poly_frommsg
  mpoly,   \* message codec: the 256 coefficients poly_frommsg writes
  msgout,  \* message codec: the 32 bytes poly_tomsg writes
  mulpc,   \* base multiplication: position in the call chain
  pa,      \* base multiplication: the NTT-domain operand a
  pb,      \* base multiplication: the NTT-domain operand b
  cache,   \* base multiplication: poly_mulcache computed from b
  r,       \* base multiplication: result of the cached multiplication
  rref,    \* base multiplication: result of the cache-free multiplication
  npc,     \* noise sampling: position of the batched call
  nseed,   \* noise sampling: the 32-byte seed
  nonces,  \* noise sampling: nonce0 .. nonce3
  neta,    \* noise sampling: the noise parameter eta of the call
  lanepc,  \* noise sampling: position of each of the four lanes
  xstate,  \* noise sampling: the four-lane sponge state
  xbuf,    \* noise sampling: the four output buffers of the sponge
  r4,      \* noise sampling: r0 .. r3 written by the batched call
  rs       \* noise sampling: results of four single-lane calls

scalarVars == <<pc, kind, width, u, d, x, d2, c, t>>

msgVars == <<mpc, msg, mpoly, msgout>>

mulVars == <<mulpc, pa, pb, cache, r, rref>>

noiseVars == <<npc, nseed, nonces, neta, lanepc, xstate, xbuf, r4, rs>>

vars == <<scalarVars, msgVars, mulVars, noiseVars>>

otherThanScalar == <<msgVars, mulVars, noiseVars>>

otherThanMsg == <<scalarVars, mulVars, noiseVars>>

otherThanMul == <<scalarVars, msgVars, noiseVars>>

otherThanNoise == <<scalarVars, msgVars, mulVars>>

-----------------------------------------------------------------------------
(* Parameters *)

MLKEM_Q == 3329

MLKEM_N == 256

MLKEM_INDCPA_MSGBYTES == 32

\* q^-1 mod 2^16, as a signed 16-bit value
QINV == -3327

\* the primitive 256-th root of unity the transform uses
ROOT_OF_UNITY == 17

MLKEM_SYMBYTES == 32

\* lanes of the batched sponge
KECCAK_WAY == 4

\* size of the stand-in for the sponge's lane state
SPONGE_MODULUS == 65521

-----------------------------------------------------------------------------
(* Fixed-width integers *)

RECURSIVE Pow2(_)
Pow2(n) == IF n = 0 THEN 1 ELSE 2 * Pow2(n - 1)

\* conversion to uint16_t
ToUint16(n) == n % 65536

\* conversion to int16_t (two's complement)
ToInt16(n) == ((n + 32768) % 65536) - 32768

\* bitwise operations on n-bit unsigned values
RECURSIVE BitAnd(_, _, _)
BitAnd(a, b, n) ==
  IF n = 0 THEN 0
  ELSE (a % 2) * (b % 2) + 2 * BitAnd(a \div 2, b \div 2, n - 1)

RECURSIVE BitXor(_, _, _)
BitXor(a, b, n) ==
  IF n = 0 THEN 0
  ELSE ((a + b) % 2) + 2 * BitXor(a \div 2, b \div 2, n - 1)

\* a uint32_t as two 16-bit limbs <<hi, lo>>
U32(n) == <<(n \div 65536) % 65536, n % 65536>>

\* the value of a uint32_t below 2^31
U32Value(v) == v[1] * 65536 + v[2]

\* v << s, 0 < s < 16
Shl32(v, s) ==
  <<(v[1] * Pow2(s) + v[2] \div Pow2(16 - s)) % 65536, (v[2] * Pow2(s)) % 65536>>

\* v + w mod 2^32
Add32(v, w) ==
  LET lo == v[2] + w[2]
  IN  <<(v[1] + w[1] + lo \div 65536) % 65536, lo % 65536>>

\* the 32-bit product of two 16-bit values
Mul16(a, b) ==
  LET p1 == (a \div 256) * b
      p0 == (a % 256) * b
      s  == (p1 % 256) * 256 + p0
  IN  <<(p1 \div 256 + s \div 65536) % 65536, s % 65536>>

\* v * w mod 2^32: the product wraps around
Mul32(v, w) ==
  LET ll == Mul16(v[2], w[2])
      lh == Mul16(v[2], w[1])
      hl == Mul16(v[1], w[2])
  IN  <<(ll[1] + lh[2] + hl[2]) % 65536, ll[2]>>

\* v >> s, 0 < s < 32
Shr32(v, s) ==
  IF s >= 16 THEN <<0, v[1] \div Pow2(s - 16)>>
  ELSE <<v[1] \div Pow2(s),
         (v[1] % Pow2(s)) * Pow2(16 - s) + v[2] \div Pow2(s)>>

\* v & w
And32(v, w) == <<BitAnd(v[1], w[1], 16), BitAnd(v[2], w[2], 16)>>

-----------------------------------------------------------------------------
(* Scalar codec *)

\* the fixed-point compression: ((u << shift) + round) * mult >> down & mask
CompressFixedPoint(u_, shift, round, mult, down, mask) ==
  LET d0 == U32(u_)
      d1 == Shl32(d0, shift)
      d3 == Add32(d1, U32(round))
      d4 == Mul32(d3, U32(mult))
      d5 == Shr32(d4, down)
      d6 == And32(d5, U32(mask))
  IN  U32Value(d6)

scalar_compress_q_16_half(u_) == CompressFixedPoint(u_, 4, 1664, 80635, 28, 15)

scalar_compress_q_16_floor(u_) == CompressFixedPoint(u_, 4, 0, 80635, 28, 15)

scalar_compress_q_16(u_) == CompressFixedPoint(u_, 4, 1665, 80635, 28, 15)

scalar_decompress_q_16_trunc(u_) == (u_ * MLKEM_Q) \div 16

scalar_decompress_q_16(u_) == ((u_ * MLKEM_Q) + 8) \div 16

scalar_compress_q_32_half(u_) == CompressFixedPoint(u_, 5, 1665, 40318, 27, 31)

scalar_compress_q_32_mult(u_) == CompressFixedPoint(u_, 5, 1664, 40317, 27, 31)

scalar_compress_q_32_floor(u_) == CompressFixedPoint(u_, 5, 0, 40318, 27, 31)

scalar_compress_q_32(u_) == CompressFixedPoint(u_, 5, 1664, 40318, 27, 31)

scalar_decompress_q_32(u_) == ((u_ * MLKEM_Q) + 16) \div 32

\* verify.h: *r = b ? v : *r, computed with a mask and no branch
cmov_int16(dst, v, b) ==
  LET mask == ToUint16(-b)
      ru   == ToUint16(dst)
      vu   == ToUint16(v)
  IN  ToInt16(BitXor(ru, BitAnd(mask, BitXor(ru, vu, 16), 16), 16))

scalar_signed_to_unsigned_q_16_le(c_) ==
  LET c1 == cmov_int16(c_, ToInt16(c_ + MLKEM_Q), IF c_ <= 0 THEN 1 ELSE 0)
  IN  ToUint16(c1)

scalar_signed_to_unsigned_q_16(c_) ==
  LET c1 == cmov_int16(c_, ToInt16(c_ + MLKEM_Q), IF c_ < 0 THEN 1 ELSE 0)
  IN  ToUint16(c1)

compress(u_, b) ==
  IF b = 4 THEN scalar_compress_q_16(u_) ELSE scalar_compress_q_32(u_)

decompress(d_, b) ==
  IF b = 4 THEN scalar_decompress_q_16(d_) ELSE scalar_decompress_q_32(d_)

-----------------------------------------------------------------------------
(* Calls of the scalar codec *)

ScalarIdle ==
  /\ pc = "idle" /\ kind = "none" /\ width = 0
  /\ u = -1 /\ d = -1 /\ x = -1 /\ d2 = -1 /\ c = 0 /\ t = -1

\* the inputs the contracts of poly.h admit
ScalarInit ==
  /\ pc = "start"
  /\ x = -1 /\ d2 = -1 /\ t = -1
  /\ \/ /\ kind = "coef"
        /\ width \in {4, 5}
        /\ u \in 0 .. (MLKEM_Q - 1)
        /\ d = -1 /\ c = 0
     \/ /\ kind = "code"
        /\ width \in {4, 5}
        /\ d \in 0 .. (Pow2(width) - 1)
        /\ u = -1 /\ c = 0
     \/ /\ kind = "signed"
        /\ width = 0
        /\ c \in (-(MLKEM_Q - 1)) .. (MLKEM_Q - 1)
        /\ u = -1 /\ d = -1

Compress ==
  /\ pc = "start" /\ kind = "coef"
  /\ d' = compress(u, width)
  /\ pc' = "compressed"
  /\ UNCHANGED <<kind, width, u, x, d2, c, t>>
  /\ UNCHANGED otherThanScalar

Decompress ==
  /\ \/ pc = "compressed"
     \/ pc = "start" /\ kind = "code"
  /\ x' = decompress(d, width)
  /\ pc' = "decompressed"
  /\ UNCHANGED <<kind, width, u, d, d2, c, t>>
  /\ UNCHANGED otherThanScalar

Recompress ==
  /\ pc = "decompressed"
  /\ x \in 0 .. (MLKEM_Q - 1)
  /\ d2' = compress(x, width)
  /\ pc' = "recompressed"
  /\ UNCHANGED <<kind, width, u, d, x, c, t>>
  /\ UNCHANGED otherThanScalar

SignedToUnsigned ==
  /\ pc = "start" /\ kind = "signed"
  /\ t' = scalar_signed_to_unsigned_q_16(c)
  /\ pc' = "converted"
  /\ UNCHANGED <<kind, width, u, d, x, d2, c>>
  /\ UNCHANGED otherThanScalar

ScalarNext ==
  \/ Compress
  \/ Decompress
  \/ Recompress
  \/ SignedToUnsigned


-----------------------------------------------------------------------------
(* Properties of the scalar codec *)

Abs(n) == IF n < 0 THEN -n ELSE n

\* distance of two residues on the circle Z_q
CircDist(a, b) ==
  IF Abs(a - b) <= MLKEM_Q - Abs(a - b) THEN Abs(a - b) ELSE MLKEM_Q - Abs(a - b)

\* round(q / 2^(b+1)): 104 for b = 4, 52 for b = 5
MaxRoundingError(b) == (MLKEM_Q + Pow2(b)) \div Pow2(b + 1)

\* floor(u * 2^b / q + 1/2), the exact rounded division
RoundedDivision(u_, b) == (2 * u_ * Pow2(b) + MLKEM_Q) \div (2 * MLKEM_Q)

\* C1: for every u in [0, q-1], scalar_compress_q_16(u) returns
\* ((16*u + 1664) div 3329) mod 16, and the result is below 16.
C1_Compress16Contract ==
  (kind = "coef" /\ width = 4 /\ pc # "start") =>
    /\ d = ((16 * u + 1664) \div 3329) % 16
    /\ d >= 0 /\ d < 16

\* the multiplication has wrapped around 2^32 and the result is the code 0
C1_Witness ==
  kind = "coef" /\ width = 4 /\ pc = "compressed" /\ u = 3328 /\ d = 0

\* C2: for every u in [0, q-1], scalar_compress_q_32(u) returns
\* ((32*u + 1664) div 3329) mod 32, and the result is below 32.
C2_Compress32Contract ==
  (kind = "coef" /\ width = 5 /\ pc # "start") =>
    /\ d = ((32 * u + 1664) \div 3329) % 32
    /\ d >= 0 /\ d < 32

C2_Witness ==
  kind = "coef" /\ width = 5 /\ pc = "compressed" /\ u = 3328 /\ d = 0

C4_DecompressRounds ==
  (pc = "decompressed" \/ pc = "recompressed") =>
    /\ x = (2 * d * MLKEM_Q + Pow2(width)) \div Pow2(width + 1)
    /\ 2 * Abs(Pow2(width) * x - d * MLKEM_Q) <= Pow2(width)
    /\ x >= 0 /\ x <= MLKEM_Q - 1

\* the largest code of the wider codec
C4_Witness ==
  kind = "code" /\ width = 5 /\ pc = "decompressed" /\ d = 31 /\ x = 3225

\* C5: for every int16 c with -(q-1) <= c <= q-1,
\* scalar_signed_to_unsigned_q_16(c) is c + q for negative c and c otherwise,
\* lies in [0, q-1], c + q fits in int16, and the documented examples hold.
C5_SignedToUnsigned ==
  (pc = "converted") =>
    /\ t = (IF c < 0 THEN c + MLKEM_Q ELSE c)
    /\ t >= 0 /\ t <= MLKEM_Q - 1
    /\ ToInt16(c + MLKEM_Q) = c + MLKEM_Q
    /\ (c = 0 => t = 0)
    /\ (c = 1 => t = 1)
    /\ (c = 3328 => t = 3328)
    /\ (c = -1 => t = 3328)
    /\ (c = -2 => t = 3327)
    /\ (c = -3328 => t = 1)

C5_Witness == pc = "converted" /\ c = -3328 /\ t = 1

\* C6 (as stated): for b in {4, 5} and every u in [0, q-1],
\* |decompress(compress(u, b), b) - u| <= round(q / 2^(b+1)).
C6_Original ==
  (kind = "coef" /\ (pc = "decompressed" \/ pc = "recompressed")) =>
    Abs(x - u) <= MaxRoundingError(width)

\* C6 (amended): for b in {4, 5} and every u in [0, q-1],
\* decompress(compress(u, b), b) differs from u modulo q by at most
\* round(q / 2^(b+1)): the smaller of |x - u| and q - |x - u| is at most 104
\* for b = 4 and at most 52 for b = 5.
C6_RoundTripModQ ==
  (kind = "coef" /\ (pc = "decompressed" \/ pc = "recompressed")) =>
    /\ CircDist(x, u) <= MaxRoundingError(width)
    /\ MaxRoundingError(4) = 104 /\ MaxRoundingError(5) = 52

\* a coefficient close to q is decompressed to 0, at the maximal distance
C6_Witness ==
  /\ kind = "coef" /\ width = 4 /\ pc = "decompressed"
  /\ u = 3225 /\ x = 0 /\ CircDist(x, u) = 104

\* C10: compressing a decompressed code gives the code back, for every
\* code of either width; hence compress-decompress-compress is idempotent.
C10_CompressInvertsDecompress ==
  (pc = "recompressed") => d2 = d

C10_Witness ==
  kind = "code" /\ width = 5 /\ pc = "recompressed" /\ d = 31 /\ d2 = 31

-----------------------------------------------------------------------------
(* Message codec: poly_frommsg, poly_tomsg *)

\* bit j of a byte: (byte >> j) & 1
BitOf(byte, j) == (byte \div Pow2(j)) % 2

\* the coefficient of one message bit: 0, or (q+1)/2 moved in by cmov_int16
frommsg_coeff(bit) == cmov_int16(0, (MLKEM_Q + 1) \div 2, bit)

\* coefficient 8*i + j encodes bit j of byte i
poly_frommsg(m) ==
  [k \in 1 .. MLKEM_N |->
     frommsg_coeff(BitOf(m[((k - 1) \div 8) + 1], (k - 1) % 8))]

\* compression of a coefficient to one bit: round(2*c/q) mod 2
tomsg_bit(coeff) ==
  LET t0 == scalar_signed_to_unsigned_q_16(coeff)
  IN  (((t0 * 2) + MLKEM_Q \div 2) \div MLKEM_Q) % 2

RECURSIVE tomsg_byte(_, _, _, _)
tomsg_byte(a, i, j, w) ==
  IF j = 0 THEN 0
  ELSE tomsg_byte(a, i, j - 1, w)
       + tomsg_bit(a[8 * i + (j - 1) + 1]) * Pow2(IF w = 0 THEN j - 1 ELSE 8 - j)

poly_tomsg_msb_first(a) ==
  [i \in 1 .. MLKEM_INDCPA_MSGBYTES |-> tomsg_byte(a, i - 1, 8, 1)]

\* byte i collects the bits of coefficients 8*i .. 8*i + 7, bit j from 8*i + j
poly_tomsg(a) ==
  [i \in 1 .. MLKEM_INDCPA_MSGBYTES |-> tomsg_byte(a, i - 1, 8, 0)]

MsgIdle == mpc = "idle" /\ msg = <<>> /\ mpoly = <<>> /\ msgout = <<>>

\* the messages tried: a background of all-zero or all-one bytes in which
\* one byte, at any position, takes one of these values (each single bit,
\* no bit, and a mixed pattern)
MsgBackground == {0, 255}

MsgByteValues == {0, 1, 2, 4, 8, 16, 32, 64, 128, 165}

MsgInit ==
  /\ mpc = "start"
  /\ \E base \in MsgBackground, i \in 1 .. MLKEM_INDCPA_MSGBYTES,
        v \in MsgByteValues :
       msg = [k \in 1 .. MLKEM_INDCPA_MSGBYTES |-> IF k = i THEN v ELSE base]
  /\ mpoly = <<>>
  /\ msgout = <<>>

FromMsg ==
  /\ mpc = "start"
  /\ mpoly' = poly_frommsg(msg)
  /\ mpc' = "encoded"
  /\ UNCHANGED <<msg, msgout>>
  /\ UNCHANGED otherThanMsg

ToMsg ==
  /\ mpc = "encoded"
  /\ msgout' = poly_tomsg(mpoly)
  /\ mpc' = "decoded"
  /\ UNCHANGED <<msg, mpoly>>
  /\ UNCHANGED otherThanMsg

MsgNext ==
  \/ FromMsg
  \/ ToMsg

\* C7: poly_tomsg(poly_frommsg(m)) = m: a 0 bit is encoded as the
\* coefficient 0 and a 1 bit as (q+1)/2 = 1665, and decoding recovers the
\* bit at every one of the 256 positions.
C7_MsgRoundTrip ==
  /\ (mpc = "encoded" \/ mpc = "decoded") =>
        \A k \in 1 .. 256 :
          mpoly[k] = IF BitOf(msg[((k - 1) \div 8) + 1], (k - 1) % 8) = 1
                     THEN 1665 ELSE 0
  /\ (mpc = "decoded") =>
        /\ msgout = msg
        /\ \A k \in 1 .. 256 :
             BitOf(msgout[((k - 1) \div 8) + 1], (k - 1) % 8)
               = BitOf(msg[((k - 1) \div 8) + 1], (k - 1) % 8)

\* a message with both bit values inside one byte has been decoded
C7_Witness ==
  /\ mpc = "decoded"
  /\ msg[1] = 165 /\ msg[32] = 255
  /\ mpoly[1] = 1665 /\ mpoly[2] = 0
  /\ msgout[1] = 165

-----------------------------------------------------------------------------
(* Multiplication cache and cached base multiplication *)

\* a * R^-1 mod q for R = 2^16, as a signed 16-bit representative
montgomery_reduce(a) ==
  LET t0 == ToInt16(ToInt16(a) * QINV)
  IN  ToInt16((a - t0 * MLKEM_Q) \div 65536)

fqmul(a, b) == montgomery_reduce(a * b)

\* the 7-bit reversal of i
RECURSIVE BitRev(_, _)
BitRev(i, n) ==
  IF n = 0 THEN 0 ELSE (i % 2) * Pow2(n - 1) + BitRev(i \div 2, n - 1)

RECURSIVE PowMod(_, _)
PowMod(g, e) ==
  IF e = 0 THEN 1
  ELSE LET h == PowMod(g, e \div 2)
       IN  IF e % 2 = 0 THEN (h * h) % MLKEM_Q ELSE (((h * h) % MLKEM_Q) * g) % MLKEM_Q

\* the representative of n mod q in [-(q-1)/2, (q-1)/2]
CenteredMod(n) ==
  IF n % MLKEM_Q > MLKEM_Q \div 2 THEN (n % MLKEM_Q) - MLKEM_Q ELSE n % MLKEM_Q

\* the twiddle factors in Montgomery form, zetas[0 .. 127]
zetas ==
  [i \in 0 .. 127 |-> CenteredMod(65536 * PowMod(ROOT_OF_UNITY, BitRev(i, 7)))]

\* the twiddle factor of coefficient pair k (0 .. 127): pairs 2i and 2i + 1
\* use zetas[64 + i] and -zetas[64 + i]
PairZeta(k) == IF k % 2 = 0 THEN zetas[64 + k \div 2] ELSE -zetas[64 + k \div 2]

poly_mulcache_compute_same_sign(b) ==
  [k \in 1 .. MLKEM_N \div 2 |-> fqmul(b[2 * (k - 1) + 2], zetas[64 + (k - 1) \div 2])]

\* one cached value per coefficient pair: b[2k+1] * zeta_k
poly_mulcache_compute(b) ==
  [k \in 1 .. MLKEM_N \div 2 |-> fqmul(b[2 * (k - 1) + 2], PairZeta(k - 1))]

\* the product of the pairs (a0 + a1 X)(b0 + b1 X) mod X^2 - zeta, with the
\* term b1 * zeta taken from the cache
basemul_cached(a0, a1, b0, b1, b_cached) ==
  <<ToInt16(fqmul(a1, b_cached) + fqmul(a0, b0)),
    ToInt16(fqmul(a0, b1) + fqmul(a1, b0))>>

\* the same product computed from the operands and the twiddle factor alone
basemul(a0, a1, b0, b1, zeta) ==
  <<ToInt16(fqmul(fqmul(a1, b1), zeta) + fqmul(a0, b0)),
    ToInt16(fqmul(a0, b1) + fqmul(a1, b0))>>

poly_basemul_montgomery_cached(a, b, b_cache) ==
  [k \in 1 .. MLKEM_N |->
     LET p == (k - 1) \div 2
     IN  basemul_cached(a[2 * p + 1], a[2 * p + 2], b[2 * p + 1], b[2 * p + 2],
                        b_cache[p + 1])[((k - 1) % 2) + 1]]

poly_basemul_montgomery(a, b) ==
  [k \in 1 .. MLKEM_N |->
     LET p == (k - 1) \div 2
     IN  basemul(a[2 * p + 1], a[2 * p + 2], b[2 * p + 1], b[2 * p + 2],
                 PairZeta(p))[((k - 1) % 2) + 1]]

MulIdle ==
  /\ mulpc = "idle" /\ pa = <<>> /\ pb = <<>>
  /\ cache = <<>> /\ r = <<>> /\ rref = <<>>

\* the coefficients tried, all in the signed canonical range
MulCoeffs == {-3328, -2801, -1, 0, 1, 2259, 3328}

\* operands whose coefficient pairs repeat one pair of sample coefficients
MulInit ==
  /\ mulpc = "start"
  /\ \E a0 \in MulCoeffs, a1 \in MulCoeffs :
       pa = [k \in 1 .. MLKEM_N |-> IF k % 2 = 1 THEN a0 ELSE a1]
  /\ \E b0 \in MulCoeffs, b1 \in MulCoeffs :
       pb = [k \in 1 .. MLKEM_N |-> IF k % 2 = 1 THEN b0 ELSE b1]
  /\ cache = <<>> /\ r = <<>> /\ rref = <<>>

MulcacheCompute ==
  /\ mulpc = "start"
  /\ cache' = poly_mulcache_compute(pb)
  /\ mulpc' = "cached"
  /\ UNCHANGED <<pa, pb, r, rref>>
  /\ UNCHANGED otherThanMul

BasemulCached ==
  /\ mulpc = "cached"
  /\ r' = poly_basemul_montgomery_cached(pa, pb, cache)
  /\ mulpc' = "multiplied"
  /\ UNCHANGED <<pa, pb, cache, rref>>
  /\ UNCHANGED otherThanMul

BasemulFromScratch ==
  /\ mulpc = "multiplied"
  /\ rref' = poly_basemul_montgomery(pa, pb)
  /\ mulpc' = "compared"
  /\ UNCHANGED <<pa, pb, cache, r>>
  /\ UNCHANGED otherThanMul

MulNext ==
  \/ MulcacheCompute
  \/ BasemulCached
  \/ BasemulFromScratch

-----------------------------------------------------------------------------
(* Noise sampling: poly_getnoise_eta2, poly_getnoise_eta1_4x,               *)
(* poly_getnoise_eta2_4x over shake256 / shake256x4.  The permutation of    *)
(* the sponge is outside this model: a lane is a byte-stream generator      *)
(* keyed by what it absorbed, here a small mixing function.                 *)

\* absorbing the bytes in[1 .. n] into one lane
RECURSIVE shake256_absorb(_, _, _)
shake256_absorb(st, in, n) ==
  IF n = 0 THEN st
  ELSE (shake256_absorb(st, in, n - 1) * 257 + in[n] + 1) % SPONGE_MODULUS

\* byte i (from 0) of the output stream of a lane
shake256_squeeze_byte(st, i) ==
  ((st + 1) * (2 * i + 3) + st \div 256 + i) % 256

shake256_squeeze(st, outlen) ==
  [i \in 1 .. outlen |-> shake256_squeeze_byte(st, i - 1)]

\* the input of the PRF: seed || nonce
extkey(seed, nonce) == [i \in 1 .. MLKEM_SYMBYTES + 1 |->
                          IF i <= MLKEM_SYMBYTES THEN seed[i] ELSE nonce]

\* bit k (from 0) of a byte stream, least significant bit of a byte first
StreamBit(buf, k) == BitOf(buf[(k \div 8) + 1], k % 8)

RECURSIVE SumBits(_, _, _)
SumBits(buf, from, n) ==
  IF n = 0 THEN 0 ELSE StreamBit(buf, from + n - 1) + SumBits(buf, from, n - 1)

\* centered binomial distribution: coefficient k is the sum of eta bits
\* minus the sum of the next eta bits of the stream
cbd(buf, eta) ==
  [k \in 1 .. MLKEM_N |->
     SumBits(buf, 2 * eta * (k - 1), eta) - SumBits(buf, 2 * eta * (k - 1) + eta, eta)]

\* single-lane sampling: 64 * eta bytes of PRF(seed, nonce), then cbd
poly_getnoise(seed, nonce, eta) ==
  cbd(shake256_squeeze(shake256_absorb(0, extkey(seed, nonce), MLKEM_SYMBYTES + 1),
                       (eta * MLKEM_N) \div 4),
      eta)

\* the input of lane l of the batched call: seed || nonce_l
extkey4_first_nonce(seed, ns, l) == extkey(seed, ns[1])

extkey4(seed, ns, l) == extkey(seed, ns[l])

\* shake256x4_absorb, lane l: only lane l of the state changes
shake256x4_absorb_lane(state, l, in, inlen) ==
  [state EXCEPT ![l] = shake256_absorb(0, in, inlen)]

\* shake256x4_squeezeblocks, lane l: out_l is read from lane l of the state
shake256x4_squeeze_lane(state, l, outlen) == shake256_squeeze(state[l], outlen)

NoiseIdle ==
  /\ npc = "idle" /\ nseed = <<>> /\ nonces = <<>> /\ neta = 0
  /\ lanepc = <<>> /\ xstate = <<>> /\ xbuf = <<>> /\ r4 = <<>> /\ rs = <<>>

\* the seeds, nonce quadruples and noise parameters tried
NoiseSeeds ==
  { [i \in 1 .. MLKEM_SYMBYTES |-> i - 1],
    [i \in 1 .. MLKEM_SYMBYTES |-> (37 * i + 200) % 256] }

NoiseNonces == { <<0, 1, 2, 3>>, <<4, 5, 6, 7>>, <<255, 0, 255, 0>>, <<9, 9, 9, 9>> }

NoiseEtas == {2, 3}

NoiseInit ==
  /\ npc = "running"
  /\ nseed \in NoiseSeeds
  /\ nonces \in NoiseNonces
  /\ neta \in NoiseEtas
  /\ lanepc = [l \in 1 .. KECCAK_WAY |-> "absorb"]
  /\ xstate = [l \in 1 .. KECCAK_WAY |-> 0]
  /\ xbuf = [l \in 1 .. KECCAK_WAY |-> <<>>]
  /\ r4 = [l \in 1 .. KECCAK_WAY |-> <<>>]
  /\ rs = <<>>

\* the steps of the four lanes of one batched call, in any interleaving
AbsorbLane ==
  \E l \in 1 .. KECCAK_WAY :
    /\ npc = "running" /\ lanepc[l] = "absorb"
    /\ xstate' = shake256x4_absorb_lane(xstate, l, extkey4(nseed, nonces, l),
                                        MLKEM_SYMBYTES + 1)
    /\ lanepc' = [lanepc EXCEPT ![l] = "squeeze"]
    /\ UNCHANGED <<npc, nseed, nonces, neta, xbuf, r4, rs>>
    /\ UNCHANGED otherThanNoise

SqueezeLane ==
  \E l \in 1 .. KECCAK_WAY :
    /\ npc = "running" /\ lanepc[l] = "squeeze"
    /\ xbuf' = [xbuf EXCEPT ![l] =
                  shake256x4_squeeze_lane(xstate, l, (neta * MLKEM_N) \div 4)]
    /\ lanepc' = [lanepc EXCEPT ![l] = "cbd"]
    /\ UNCHANGED <<npc, nseed, nonces, neta, xstate, r4, rs>>
    /\ UNCHANGED otherThanNoise

CbdLane ==
  \E l \in 1 .. KECCAK_WAY :
    /\ npc = "running" /\ lanepc[l] = "cbd"
    /\ r4' = [r4 EXCEPT ![l] = cbd(xbuf[l], neta)]
    /\ lanepc' = [lanepc EXCEPT ![l] = "done"]
    /\ UNCHANGED <<npc, nseed, nonces, neta, xstate, xbuf, rs>>
    /\ UNCHANGED otherThanNoise

\* the batched call has returned; four single-lane calls are made
SingleLaneCalls ==
  /\ npc = "running"
  /\ \A l \in 1 .. KECCAK_WAY : lanepc[l] = "done"
  /\ rs' = [l \in 1 .. KECCAK_WAY |-> poly_getnoise(nseed, nonces[l], neta)]
  /\ npc' = "compared"
  /\ UNCHANGED <<nseed, nonces, neta, lanepc, xstate, xbuf, r4>>
  /\ UNCHANGED otherThanNoise

NoiseNext ==
  \/ AbsorbLane
  \/ SqueezeLane
  \/ CbdLane
  \/ SingleLaneCalls

-----------------------------------------------------------------------------
(* Specifications *)

InitScalar == ScalarInit /\ MsgIdle /\ MulIdle /\ NoiseIdle

SpecScalar == InitScalar /\ [][ScalarNext]_vars

InitMsg == ScalarIdle /\ MsgInit /\ MulIdle /\ NoiseIdle

SpecMsg == InitMsg /\ [][MsgNext]_vars

InitMul == ScalarIdle /\ MsgIdle /\ MulInit /\ NoiseIdle

SpecMul == InitMul /\ [][MulNext]_vars

InitNoise == ScalarIdle /\ MsgIdle /\ MulIdle /\ NoiseInit

SpecNoise == InitNoise /\ [][NoiseNext]_vars

====
